---------------------------- MODULE Spec2Model ----------------------------
(***************************************************************************)
(* A model of the incremental splitters of linesep                         *)
(* (src/src/linesep/splitters.py) and of the one-shot split functions      *)
(* (src/src/linesep/__init__.py).                                          *)
(*                                                                         *)
(* Strings are sequences of one-character strings.  A Python Optional is   *)
(* a sequence of length 0 (None) or 1 (the value), so that the empty       *)
(* string, Some(<<>>), is distinct from None.                              *)
(***************************************************************************)
EXTENDS Integers, Sequences, FiniteSets, TLC

\* ------------------------------------------------------------------ bounds
\* Longest chunk handed to one feed().
MaxChunk == 2
\* Number of feed() calls in one behaviour of Spec.
MaxFeeds == 3
\* Number of feed() calls in one behaviour of SpecSnap.
MaxSnapFeeds == 2
\* Number of close() calls made in a row.
MaxCloses == 2
\* Number of calls recorded after a getstate().
MaxLog == 1
\* Longest string handed to a one-shot split function.
MaxStr == 4
\* Number of feed() calls on an instance made by get_newline_splitter().
MaxSelectorFeeds == 2
\* Number of chunks of the iterable handed to itersplit().
MaxIter == 2
\* Number of feed() calls made before the generator of itersplit() is started.
MaxIterFeeds == 1
\* Number of entries handed to join_terminated.
MaxEntries == 3
\* Number of feed() and split() calls in one behaviour of SpecOps.
MaxOpsFeeds == 2

\* The alphabet of the inputs and the separators a splitter is built with.
Chars == {"a", "s"}
Separators == {<<"s">>, <<"s", "s">>, <<"a", "s">>}
Classes == {"TerminatedSplitter", "SeparatedSplitter", "PrecededSplitter"}

StrsUpTo(n) == UNION {[1..k -> Chars] : k \in 0..n}

\* The alphabet of the inputs of a UniversalNewlineSplitter.
NewlineChars == {"a", "\r", "\n"}

NewlineStrsUpTo(n) == UNION {[1..k -> NewlineChars] : k \in 0..n}

\* The values given to get_newline_splitter() as newline: None, or a str.
NewlineArgs ==
    {<<>>} \cup {<<s>> : s \in {<<>>, <<"\n">>, <<"\r">>, <<"\r", "\n">>, <<"a">>,
                                <<"\n", "\r">>, <<"\r", "\r">>, <<"\r", "\n", "a">>}}

\* ------------------------------------------------------------- primitives
None == <<>>
Some(x) == <<x>>
IsNone(o) == Len(o) = 0

\* Python's s[a:b] for 0 <= a <= b <= len(s).
Slice(s, a, b) == SubSeq(s, a + 1, b)

SetMin(S) == CHOOSE x \in S : \A y \in S : x <= y

RECURSIVE Flatten(_)
\* "".join(seqs)
Flatten(seqs) == IF Len(seqs) = 0 THEN <<>> ELSE Head(seqs) \o Flatten(Tail(seqs))

\* The indices at which sub occurs in data.
Occurrences(data, sub) ==
    {i \in 0..Len(data) : /\ i + Len(sub) <= Len(data)
                          /\ Slice(data, i, i + Len(sub)) = sub}

LowestOr(found, default) == IF found = {} THEN default ELSE SetMin(found)

\* str.index(sub): the lowest index at which sub occurs, -1 for ValueError.
StrIndex(data, sub) == LowestOr(Occurrences(data, sub), -1)

\* ------------------------------------------------------------------ state
VARIABLES
    constructed,  \* whether the constructor returned an instance
    cls,          \* the concrete class of the instance
    separator,    \* self._separator
    retain,       \* self._retain
    translate,    \* self._translate of a UniversalNewlineSplitter
    self,         \* [items, buff, hold, closed, first]: the Splitter fields, and
                  \* strs, the _strs of a UniversalNewlineSplitter
    snap,         \* the SplitterState last returned by getstate(), if any
    result,       \* the last call: its name, the exception raised, the value returned
    oneshot,      \* the list returned by the one-shot split function, if called
    chunks,       \* history: the chunks accepted by feed() since construction or reset()
    got,          \* history: the items handed out by get()/getall() since then, in call order
    tracked,      \* history: whether chunks and got are recorded in this behaviour
    nfeeds,       \* history: the number of feed() calls made
    ncloses,      \* history: the number of close() calls among the last calls, in a row
    capt,         \* history: the fields at the time of the last getstate()
    logging,      \* history: no setstate() since the last getstate()
    oplog,        \* history: the first calls made after the last getstate()
    outlog,       \* history: what those calls raised and returned
    shadow,       \* an instance constructed anew at each reset() and given every call since
    selector,     \* the arguments of the get_newline_splitter() call that made the instance, if any
    gen           \* the generator returned by itersplit(): its position, its local st, what
                  \* is left of its iterable and of the list it is yielding from

confVars == <<constructed, cls, separator, retain, translate, selector>>
snapVars == <<snap, capt, logging>>
logVars == <<oplog, outlog>>
vars == <<constructed, cls, separator, retain, translate, self, snap, result, oneshot, chunks,
          got, tracked, nfeeds, ncloses, capt, logging, oplog, outlog, shadow,
          selector, gen>>

\* No generator: itersplit() was not called.
NoGen ==
    [phase |-> "none", st |-> <<>>, rest |-> <<>>, pending |-> <<>>, final |-> FALSE,
     iterable |-> <<>>, yielded |-> <<>>, before |-> <<>>]

\* An outcome of a call: the fields it leaves, what it raised, what it returned.
Ok(st) == [st |-> st, exc |-> "none", val |-> <<>>]
Return(st, val) == [st |-> st, exc |-> "none", val |-> val]
Raise(st, e) == [st |-> st, exc |-> e, val |-> <<>>]

\* Splitter.__init__
SplitterInit ==
    [items |-> <<>>, buff |-> None, hold |-> None, closed |-> FALSE, first |-> TRUE]

\* ConstantSplitter.__init__ without its check of the separator.
ConstantSplitterInitUnchecked(sep, ret) == Ok(SplitterInit)

\* ConstantSplitter.__init__
ConstantSplitterInit(sep, ret) ==
    IF Len(sep) = 0 THEN Raise(SplitterInit, "ValueError") ELSE Ok(SplitterInit)

\* ConstantSplitter._find_separator returning an empty span at the index found.
SpanAtStart(i) == IF i = -1 THEN None ELSE <<i, i>>

\* ConstantSplitter._find_separator: the value returned for the index i of data.index
SpanAt(i) == IF i = -1 THEN None ELSE <<i, i + Len(separator)>>

\* ConstantSplitter._find_separator looking for the last occurrence (rindex).
FindSeparatorLast(data) ==
    IF Occurrences(data, separator) = {}
    THEN SpanAt(-1)
    ELSE SpanAt(CHOOSE i \in Occurrences(data, separator) :
                    \A j \in Occurrences(data, separator) : j <= i)

\* ConstantSplitter._find_separator
FindSeparator(data) == SpanAt(StrIndex(data, separator))

\* UniversalNewlineSplitter.__init__
UniversalNewlineSplitterInit(ret, trans) ==
    Ok([items |-> <<>>, buff |-> None, hold |-> None, closed |-> FALSE,
        first |-> TRUE, strs |-> None])

\* The NewlineStrs made for str data.  Its regex is RegexSearch.
NewlineStrs == [CR |-> <<"\r">>, LF |-> <<"\n">>]

\* The indices of data that hold a CR or an LF.
NewlineStarts(data) == {i \in 0..(Len(data) - 1) : data[i + 1] \in {"\r", "\n"}}

\* The regex \r|\n: a CR and the LF after it are two matches.
MatchAtSingle(data, i) == IF i = -1 THEN None ELSE <<i, i + 1>>

\* The span of the match of \r\n?|\n that starts at index i of data, None for i = -1.
MatchAt(data, i) ==
    IF i = -1
    THEN None
    ELSE IF data[i + 1] = "\r" /\ i + 2 <= Len(data) /\ data[i + 2] = "\n"
    THEN <<i, i + 2>>
    ELSE <<i, i + 1>>

\* self._strs.regex.search(data), for the regex \r\n?|\n: the span of the leftmost match.
RegexSearch(data) == MatchAt(data, LowestOr(NewlineStarts(data), -1))

\* UniversalNewlineSplitter._find_separator returning every match at once.
UniversalSpanEager(st, data, m) == m

\* UniversalNewlineSplitter._find_separator withholding a CR at the end of the
\* data whether the splitter is closed or not.
UniversalSpanClosedToo(st, data, m) ==
    IF ~IsNone(m) /\ ~(Slice(data, m[1], m[2]) = NewlineStrs.CR /\ m[2] = Len(data))
    THEN m
    ELSE None

\* Lines 363-368 of UniversalNewlineSplitter._find_separator: the span
\* returned for the match m of the regex in data.
UniversalSpan(st, data, m) ==
    IF ~IsNone(m) /\ ~(/\ Slice(data, m[1], m[2]) = st.strs[1].CR
                       /\ m[2] = Len(data)
                       /\ ~st.closed)
    THEN m
    ELSE None

\* Lines 353-361 of UniversalNewlineSplitter._find_separator: self._strs is made
\* at the first call.
UniversalSetStrs(st) == IF IsNone(st.strs) THEN [st EXCEPT !.strs = Some(NewlineStrs)] ELSE st

\* UniversalNewlineSplitter._find_separator: the span it returns
UniversalFindSeparator(st, data) == UniversalSpan(UniversalSetStrs(st), data, RegexSearch(data))

\* Splitter._output putting the item at the front of the queue (appendleft).
OutputFront(st, item) == [st EXCEPT !.items = <<item>> \o @]

\* Splitter._output
Output(st, item) == [st EXCEPT !.items = Append(@, item)]

\* TerminatedSplitter._handle_segment emitting the last segment even when empty.
TerminatedHandleSegmentKeepEmpty(st, item, first, last) ==
    IF retain /\ ~last
    THEN IF IsNone(st.hold)
         THEN Ok([st EXCEPT !.hold = Some(item)])
         ELSE Raise(st, "AssertionError")
    ELSE Ok(Output(st, item))

\* TerminatedSplitter._handle_segment
TerminatedHandleSegment(st, item, first, last) ==
    IF ~last \/ Len(item) > 0
    THEN IF retain /\ ~last
         THEN IF IsNone(st.hold)
              THEN Ok([st EXCEPT !.hold = Some(item)])
              ELSE Raise(st, "AssertionError")
         ELSE Ok(Output(st, item))
    ELSE Ok(st)

\* TerminatedSplitter._handle_separator emitting the held segment without the separator.
TerminatedHandleSeparatorDrop(st, item) ==
    IF retain
    THEN IF ~IsNone(st.hold)
         THEN Ok([Output(st, st.hold[1]) EXCEPT !.hold = None])
         ELSE Raise(st, "AssertionError")
    ELSE Ok(st)

\* TerminatedSplitter._handle_separator
TerminatedHandleSeparator(st, item) ==
    IF retain
    THEN IF ~IsNone(st.hold)
         THEN Ok([Output(st, st.hold[1] \o item) EXCEPT !.hold = None])
         ELSE Raise(st, "AssertionError")
    ELSE Ok(st)

\* SeparatedSplitter._handle_segment emitting only the non-empty segments.
SeparatedHandleSegmentNonEmpty(st, item, first, last) ==
    IF Len(item) > 0 THEN Ok(Output(st, item)) ELSE Ok(st)

\* SeparatedSplitter._handle_segment
SeparatedHandleSegment(st, item, first, last) == Ok(Output(st, item))

\* SeparatedSplitter._handle_separator discarding the separator whatever retain is.
SeparatedHandleSeparatorDiscard(st, item) == Ok(st)

\* SeparatedSplitter._handle_separator
SeparatedHandleSeparator(st, item) == IF retain THEN Ok(Output(st, item)) ELSE Ok(st)

\* PrecededSplitter._handle_segment emitting only the non-empty segments.
PrecededHandleSegmentDropEmpty(st, item, first, last) ==
    IF Len(item) = 0
    THEN Ok([st EXCEPT !.hold = None])
    ELSE IF first
    THEN Ok(Output(st, item))
    ELSE IF retain
         THEN IF ~IsNone(st.hold)
              THEN Ok([Output(st, st.hold[1] \o item) EXCEPT !.hold = None])
              ELSE Raise(st, "AssertionError")
         ELSE Ok(Output(st, item))

\* PrecededSplitter._handle_segment gluing the held separator after the
\* segment instead of before it.
PrecededHandleSegmentSuffix(st, item, first, last) ==
    IF first
    THEN IF Len(item) > 0 THEN Ok(Output(st, item)) ELSE Ok(st)
    ELSE IF retain
         THEN IF ~IsNone(st.hold)
              THEN Ok([Output(st, item \o st.hold[1]) EXCEPT !.hold = None])
              ELSE Raise(st, "AssertionError")
         ELSE Ok(Output(st, item))

\* PrecededSplitter._handle_segment
PrecededHandleSegment(st, item, first, last) ==
    IF first
    THEN IF Len(item) > 0 THEN Ok(Output(st, item)) ELSE Ok(st)
    ELSE IF retain
         THEN IF ~IsNone(st.hold)
              THEN Ok([Output(st, st.hold[1] \o item) EXCEPT !.hold = None])
              ELSE Raise(st, "AssertionError")
         ELSE Ok(Output(st, item))

\* PrecededSplitter._handle_separator emitting the separator at once, as an
\* item of its own, and holding nothing to glue.
PrecededHandleSeparatorEager(st, item) ==
    IF retain
    THEN IF IsNone(st.hold)
         THEN Ok([Output(st, item) EXCEPT !.hold = Some(<<>>)])
         ELSE Raise(st, "AssertionError")
    ELSE Ok(st)

\* PrecededSplitter._handle_separator holding the separator whatever retain is.
PrecededHandleSeparatorUnconditional(st, item) ==
    IF IsNone(st.hold)
    THEN Ok([st EXCEPT !.hold = Some(item)])
    ELSE Raise(st, "AssertionError")

\* PrecededSplitter._handle_separator
PrecededHandleSeparator(st, item) ==
    IF retain
    THEN IF IsNone(st.hold)
         THEN Ok([st EXCEPT !.hold = Some(item)])
         ELSE Raise(st, "AssertionError")
    ELSE Ok(st)

\* UniversalNewlineSplitter._handle_segment emitting nothing for the last segment.
UniversalHandleSegmentDropLast(st, item, first, last) ==
    IF ~last
    THEN IF retain
         THEN IF IsNone(st.hold)
              THEN Ok([st EXCEPT !.hold = Some(item)])
              ELSE Raise(st, "AssertionError")
         ELSE Ok(Output(st, item))
    ELSE Ok(st)

\* UniversalNewlineSplitter._handle_segment
UniversalHandleSegment(st, item, first, last) ==
    IF ~last \/ Len(item) > 0
    THEN IF retain /\ ~last
         THEN IF IsNone(st.hold)
              THEN Ok([st EXCEPT !.hold = Some(item)])
              ELSE Raise(st, "AssertionError")
         ELSE Ok(Output(st, item))
    ELSE Ok(st)

\* UniversalNewlineSplitter._handle_separator leaving the separator as it is.
UniversalHandleSeparatorAsIs(st, item) ==
    IF retain
    THEN IF IsNone(st.hold)
         THEN Raise(st, "AssertionError")
         ELSE Ok([Output(st, st.hold[1] \o item) EXCEPT !.hold = None])
    ELSE Ok(st)

\* UniversalNewlineSplitter._handle_separator
UniversalHandleSeparator(st, item) ==
    IF retain
    THEN IF translate /\ IsNone(st.strs)
         THEN Raise(st, "AssertionError")
         ELSE IF IsNone(st.hold)
         THEN Raise(st, "AssertionError")
         ELSE Ok([Output(st, st.hold[1] \o (IF translate THEN st.strs[1].LF ELSE item))
                    EXCEPT !.hold = None])
    ELSE Ok(st)

\* The dispatch of self._find_separator on the class of the instance.
SelfFindSeparator(st, data) ==
    IF cls = "UniversalNewlineSplitter"
    THEN UniversalFindSeparator(st, data)
    ELSE FindSeparator(data)

\* The fields after self._find_separator returned.
Searched(st) == IF cls = "UniversalNewlineSplitter" THEN UniversalSetStrs(st) ELSE st

\* The dispatch of self._handle_segment on the class of the instance.
HandleSegment(st, item, first, last) ==
    CASE cls = "TerminatedSplitter" -> TerminatedHandleSegment(st, item, first, last)
      [] cls = "SeparatedSplitter" -> SeparatedHandleSegment(st, item, first, last)
      [] cls = "PrecededSplitter" -> PrecededHandleSegment(st, item, first, last)
      [] cls = "UniversalNewlineSplitter" -> UniversalHandleSegment(st, item, first, last)

\* The dispatch of self._handle_separator on the class of the instance.
HandleSeparator(st, item) ==
    CASE cls = "TerminatedSplitter" -> TerminatedHandleSeparator(st, item)
      [] cls = "SeparatedSplitter" -> SeparatedHandleSeparator(st, item)
      [] cls = "PrecededSplitter" -> PrecededHandleSeparator(st, item)
      [] cls = "UniversalNewlineSplitter" -> UniversalHandleSeparator(st, item)

\* Lines 71-72 of Splitter._split with a break after the first separator.
AfterSeparatorOnce(sep, buff, end, fuel) ==
    IF sep.exc # "none"
    THEN sep
    ELSE Ok([sep.st EXCEPT !.buff = Some(Slice(buff, end, Len(buff)))])

RECURSIVE SplitLoop(_, _)
\* Lines 71-72 of Splitter._split: after self._handle_separator returned sep,
\* the buffer loses the segment and the separator and the loop goes round.
AfterSeparator(sep, buff, end, fuel) ==
    IF sep.exc # "none"
    THEN sep
    ELSE SplitLoop([sep.st EXCEPT !.buff = Some(Slice(buff, end, Len(buff)))], fuel - 1)

\* Lines 69-71 of Splitter._split: after self._handle_segment returned seg,
\* the first flag is cleared and the separator is handled.
AfterSegment(seg, buff, start, end, fuel) ==
    IF seg.exc # "none"
    THEN seg
    ELSE AfterSeparator(
           HandleSeparator([seg.st EXCEPT !.first = FALSE], Slice(buff, start, end)),
           buff, end, fuel)

\* Lines 66-69 of Splitter._split: the loop ends when no separator is found,
\* and otherwise hands the segment before the separator to the class.
SplitMatch(st, buff, span, fuel) ==
    IF IsNone(span)
    THEN Ok(st)
    ELSE IF fuel = 0
    THEN Raise(st, "NonTermination")
    ELSE AfterSegment(HandleSegment(st, Slice(buff, 0, span[1]), st.first, FALSE),
                      buff, span[1], span[2], fuel)

\* The while loop of Splitter._split.  fuel counts the iterations left before
\* the loop is reported as not terminating; Split starts it at the length of
\* the buffer, which no terminating run of the loop exceeds.
SplitLoop(st, fuel) ==
    IF IsNone(st.buff) \/ Len(st.buff[1]) = 0
    THEN Ok(st)
    ELSE SplitMatch(Searched(st), st.buff[1], SelfFindSeparator(st, st.buff[1]), fuel)

\* Line 75 of Splitter._split left out: the flushed buffer stays in place.
ClearBuffNot(last) == last

\* Line 75 of Splitter._split: the buffer is dropped once the last segment is handled.
ClearBuff(last) ==
    IF last.exc # "none" THEN last ELSE Ok([last.st EXCEPT !.buff = None])

\* Lines 73-75 of Splitter._split: the flush of the buffer of a closed splitter.
FinalFlush(looped) ==
    IF looped.exc # "none"
    THEN looped
    ELSE IF looped.st.closed /\ ~IsNone(looped.st.buff)
    THEN ClearBuff(HandleSegment(looped.st, looped.st.buff[1], looped.st.first, TRUE))
    ELSE looped

\* Splitter._split
Split(st) == FinalFlush(SplitLoop(st, IF IsNone(st.buff) THEN 0 ELSE Len(st.buff[1])))

\* Splitter.feed returning at once when the chunk is empty.
feedSkipEmpty(st, data) ==
    IF st.closed
    THEN Raise(st, "SplitterClosedError")
    ELSE IF Len(data) = 0
    THEN Ok(st)
    ELSE Split([st EXCEPT !.buff = IF IsNone(@) THEN Some(data) ELSE Some(@[1] \o data)])

\* Splitter.feed replacing the buffer by the chunk instead of appending to it.
feedOverwrite(st, data) ==
    IF st.closed
    THEN Raise(st, "SplitterClosedError")
    ELSE Split([st EXCEPT !.buff = Some(data)])

\* Splitter.feed without its check of the closed flag.
feedNoClosedCheck(st, data) ==
    Split([st EXCEPT !.buff = IF IsNone(@) THEN Some(data) ELSE Some(@[1] \o data)])

\* Splitter.feed
feed(st, data) ==
    IF st.closed
    THEN Raise(st, "SplitterClosedError")
    ELSE Split([st EXCEPT !.buff = IF IsNone(@) THEN Some(data) ELSE Some(@[1] \o data)])

\* Splitter.get dropping the buffer along with the item it takes.
getDropBuff(st) ==
    IF Len(st.items) = 0
    THEN Raise(st, "SplitterEmptyError")
    ELSE Return([st EXCEPT !.items = Tail(@), !.buff = None], <<Head(st.items)>>)

\* Splitter.get returning nothing, instead of raising, on an empty queue.
getNoRaise(st) ==
    IF Len(st.items) = 0
    THEN Return(st, <<>>)
    ELSE Return([st EXCEPT !.items = Tail(@)], <<Head(st.items)>>)

\* Splitter.get taking the newest item (pop) instead of the oldest (popleft).
getRight(st) ==
    IF Len(st.items) = 0
    THEN Raise(st, "SplitterEmptyError")
    ELSE Return([st EXCEPT !.items = SubSeq(@, 1, Len(@) - 1)],
                <<st.items[Len(st.items)]>>)

\* Splitter.get
get(st) ==
    IF Len(st.items) = 0
    THEN Raise(st, "SplitterEmptyError")
    ELSE Return([st EXCEPT !.items = Tail(@)], <<Head(st.items)>>)

\* Splitter.nonempty
nonempty(st) == Len(st.items) > 0

\* Splitter.getall returning the items without taking them off the queue.
getallKeep(st) == Return(st, st.items)

\* Splitter.getall
getall(st) == Return([st EXCEPT !.items = <<>>], st.items)

\* Splitter.close setting the flag without splitting what is buffered.
closeNoSplit(st) == Ok([st EXCEPT !.closed = TRUE])

\* Splitter.close
close(st) ==
    IF ~IsNone(st.buff)
    THEN Split([st EXCEPT !.closed = TRUE])
    ELSE Ok([st EXCEPT !.closed = TRUE])

\* Splitter.closed
closed(st) == st.closed

\* Splitter.reset leaving the hold space as it is.
resetKeepHold(st) ==
    Ok([st EXCEPT !.items = <<>>, !.buff = None, !.closed = FALSE, !.first = TRUE])

\* Splitter.reset leaving the first flag as it is.
resetKeepFirst(st) ==
    Ok([st EXCEPT !.items = <<>>, !.buff = None, !.hold = None, !.closed = FALSE])

\* Splitter.reset
reset(st) ==
    Ok([st EXCEPT !.items = <<>>, !.buff = None, !.hold = None,
                  !.closed = FALSE, !.first = TRUE])

\* Splitter.getstate leaving the hold space out of the SplitterState.
getstateNoHold(st) ==
    [items |-> st.items, buff |-> st.buff, hold |-> None,
     closed |-> st.closed, first |-> st.first]

\* Splitter.getstate: the SplitterState it returns
getstate(st) ==
    [items |-> st.items, buff |-> st.buff, hold |-> st.hold,
     closed |-> st.closed, first |-> st.first]

\* Splitter.setstate without self._items.clear().
setstateNoClear(st, state) ==
    Ok([st EXCEPT !.items = @ \o state.items, !.buff = state.buff,
                  !.hold = state.hold, !.closed = state.closed,
                  !.first = state.first])

\* Splitter.setstate leaving the closed flag as it is.
setstateKeepClosed(st, state) ==
    Ok([st EXCEPT !.items = <<>> \o state.items, !.buff = state.buff,
                  !.hold = state.hold, !.first = state.first])

\* Splitter.setstate
setstate(st, state) ==
    Ok([st EXCEPT !.items = <<>> \o state.items, !.buff = state.buff,
                  !.hold = state.hold, !.closed = state.closed,
                  !.first = state.first])

\* Lines 129-131 of Splitter.split: after close() returned shut, if it was called.
SplitAfterClose(shut) == IF shut.exc # "none" THEN shut ELSE getall(shut.st)

\* Splitter.split emptying the queue before feed() raises.
SplitAfterFeedDrained(fed, final) ==
    IF fed.exc # "none"
    THEN Raise(getall(fed.st).st, fed.exc)
    ELSE SplitAfterClose(IF final THEN close(fed.st) ELSE fed)

\* Splitter.split without its call of close().
SplitAfterFeedOnly(fed, final) == IF fed.exc # "none" THEN fed ELSE getall(fed.st)

\* Lines 128-131 of Splitter.split: after feed() returned fed.
SplitAfterFeed(fed, final) ==
    IF fed.exc # "none"
    THEN fed
    ELSE SplitAfterClose(IF final THEN close(fed.st) ELSE fed)

\* Splitter.split
split(st, data, final) == SplitAfterFeed(feed(st, data), final)

\* ---------------------------------------------------- Splitter.itersplit
\* What a step of the generator leaves: the fields of the splitter, the
\* generator, what was raised and the item yielded.
GenOut(st, g, exc, val) == [st |-> st, gen |-> g, exc |-> exc, val |-> val]

\* The finally clause of itersplit left out: the generator ends without setstate(st).
GenFinallySkip(st, g, exc) == GenOut(st, [g EXCEPT !.phase = "done"], exc, <<>>)

\* Lines 205-206 of Splitter.itersplit: the finally clause, on the way out
\* with exc (StopIteration when the body has come to its end).
GenFinally(st, g, exc) ==
    GenOut(setstate(st, g.st[1]).st, [g EXCEPT !.phase = "done"], exc, <<>>)

\* A yield that first puts the saved state back.
GenYieldRestored(st, g) ==
    GenOut(setstate(st, g.st[1]).st,
           [g EXCEPT !.phase = "suspended", !.pending = Tail(@),
                     !.yielded = Append(@, Head(g.pending))],
           "none", <<Head(g.pending)>>)

\* A yield of yield from: the generator hands out the next item of the list
\* and is suspended.
GenYield(st, g) ==
    GenOut(st,
           [g EXCEPT !.phase = "suspended", !.pending = Tail(@),
                     !.yielded = Append(@, Head(g.pending))],
           "none", <<Head(g.pending)>>)

RECURSIVE GenRun(_, _)
\* Line 202 of Splitter.itersplit: yield from the list self.split(s) returned.
GenRunSplit(out, g) ==
    IF out.exc # "none"
    THEN GenFinally(out.st, g, out.exc)
    ELSE GenRun(out.st, [g EXCEPT !.rest = Tail(@), !.pending = out.val])

\* Line 204 of Splitter.itersplit: yield from the list self.getall() returned.
GenRunGetall(out, g) == GenRun(out.st, [g EXCEPT !.pending = out.val, !.final = TRUE])

\* Lines 203-204 of Splitter.itersplit: after self.close() returned shut.
GenRunClose(shut, g) ==
    IF shut.exc # "none"
    THEN GenFinally(shut.st, g, shut.exc)
    ELSE GenRunGetall(getall(shut.st), g)

\* Lines 201-204 of Splitter.itersplit, from where the generator stands to
\* its next yield or to its end.
GenRun(st, g) ==
    IF Len(g.pending) > 0
    THEN GenYield(st, g)
    ELSE IF g.final
    THEN GenFinally(st, g, "StopIteration")
    ELSE IF Len(g.rest) = 0
    THEN GenRunClose(close(st), g)
    ELSE GenRunSplit(split(st, Head(g.rest), FALSE), g)

\* Lines 198-199 of Splitter.itersplit without the reset().
GenStartNoReset(st, g) ==
    GenRun(st, [g EXCEPT !.st = Some(getstate(st)), !.before = Some(st)])

\* Lines 198-199 of Splitter.itersplit: st = self.getstate(); self.reset().
GenStart(st, g) ==
    GenRun(reset(st).st, [g EXCEPT !.st = Some(getstate(st)), !.before = Some(st)])

\* next() on the generator.
GenNext(st, g) ==
    CASE g.phase = "created" -> GenStart(st, g)
      [] g.phase = "suspended" -> GenRun(st, g)
      [] OTHER -> GenOut(st, g, "StopIteration", <<>>)

\* close() on the generator: GeneratorExit is raised at the yield where it is
\* suspended; a generator that was never started just ends.
GenClose(st, g) ==
    CASE g.phase = "suspended" -> GenFinally(st, g, "none")
      [] OTHER -> GenOut(st, [g EXCEPT !.phase = "done"], "none", <<>>)

\* --------------------------------------------------------------- the calls
\* A call of a method of the instance, as recorded in the histories.
Call(name, data) == [name |-> name, data |-> data]

\* What a recorded call does to the fields st.
Apply(st, call) ==
    CASE call.name = "feed" -> feed(st, call.data)
      [] call.name = "close" -> close(st)
      [] call.name = "get" -> get(st)
      [] call.name = "getall" -> getall(st)
      [] call.name = "reset" -> reset(st)

Outcome(call, out) == [op |-> call.name, exc |-> out.exc, val |-> out.val]

\* The newly constructed twin after the same call returned out on it.
Shadowed(call, out) == [st |-> out.st, result |-> Outcome(call, out)]

\* The record of the calls made after the last getstate().
Logged(call, out) ==
    IF logging /\ Len(oplog) < MaxLog
    THEN /\ oplog' = Append(oplog, call)
         /\ outlog' = Append(outlog, Outcome(call, out))
    ELSE UNCHANGED <<oplog, outlog>>

\* A call that returned out: its fields become the instance's, its outcome the last one.
Done(call, out) ==
    /\ self' = out.st
    /\ result' = Outcome(call, out)
    /\ Logged(call, out)

\* The state after the constructor was called with a class, a separator and
\* a retain flag; track says whether the behaviour records chunks and got.
InitWith(track) ==
    \E c \in Classes, sep \in Separators \cup {<<>>}, ret \in BOOLEAN :
        LET out == ConstantSplitterInit(sep, ret)
        IN /\ constructed = (out.exc = "none")
           /\ cls = c
           /\ separator = sep
           /\ retain = ret
           /\ translate = FALSE
           /\ self = out.st
           /\ snap = None
           /\ result = [op |-> "__init__", exc |-> out.exc, val |-> <<>>]
           /\ oneshot = None
           /\ chunks = <<>>
           /\ got = <<>>
           /\ tracked = track
           /\ nfeeds = 0
           /\ ncloses = 0
           /\ capt = None
           /\ logging = FALSE
           /\ oplog = <<>>
           /\ outlog = <<>>
           /\ shadow = [st |-> out.st,
                        result |-> [op |-> "__init__", exc |-> out.exc, val |-> <<>>]]
           /\ selector = None
           /\ gen = NoGen

Init == InitWith(TRUE)

\* feed(data), for a chunk of at most maxLen characters and at most maxFeeds times.
FeedWithin(maxLen, maxFeeds) ==
    \E data \in StrsUpTo(maxLen) :
        /\ constructed
        /\ nfeeds < maxFeeds
        /\ Done(Call("feed", data), feed(self, data))
        /\ chunks' = IF self.closed \/ ~tracked THEN chunks ELSE Append(chunks, data)
        /\ nfeeds' = nfeeds + 1
        /\ ncloses' = 0
        /\ shadow' = Shadowed(Call("feed", data), feed(shadow.st, data))
        /\ UNCHANGED <<confVars, snapVars, oneshot, gen, got, tracked>>

Feed == FeedWithin(MaxChunk, MaxFeeds)

Close ==
    /\ constructed
    /\ ncloses < MaxCloses
    /\ Done(Call("close", <<>>), close(self))
    /\ ncloses' = ncloses + 1
    /\ shadow' = Shadowed(Call("close", <<>>), close(shadow.st))
    /\ UNCHANGED <<confVars, snapVars, oneshot, gen, chunks, got, tracked, nfeeds>>

Get ==
    /\ constructed
    /\ Done(Call("get", <<>>), get(self))
    /\ got' = IF tracked THEN got \o result'.val ELSE got
    /\ ncloses' = 0
    /\ shadow' = Shadowed(Call("get", <<>>), get(shadow.st))
    /\ UNCHANGED <<confVars, snapVars, oneshot, gen, chunks, tracked, nfeeds>>

GetAll ==
    /\ constructed
    /\ Done(Call("getall", <<>>), getall(self))
    /\ got' = IF tracked THEN got \o result'.val ELSE got
    /\ ncloses' = 0
    /\ shadow' = Shadowed(Call("getall", <<>>), getall(shadow.st))
    /\ UNCHANGED <<confVars, snapVars, oneshot, gen, chunks, tracked, nfeeds>>

Reset ==
    /\ constructed
    /\ Done(Call("reset", <<>>), reset(self))
    /\ chunks' = <<>>
    /\ got' = <<>>
    /\ ncloses' = 0
    /\ shadow' = Shadowed(Call("reset", <<>>), ConstantSplitterInit(separator, retain))
    /\ UNCHANGED <<confVars, snapVars, oneshot, gen, tracked, nfeeds>>

Next ==
    \/ Feed
    \/ Close
    \/ Get
    \/ GetAll
    \/ Reset

Spec == Init /\ [][Next]_vars

\* ------------------------------------------------- with getstate/setstate
SnapInit == InitWith(FALSE)

SnapFeed == FeedWithin(MaxChunk, MaxSnapFeeds)

GetState ==
    /\ constructed
    /\ snap' = Some(getstate(self))
    /\ result' = [op |-> "getstate", exc |-> "none", val |-> <<>>]
    /\ capt' = Some(self)
    /\ logging' = TRUE
    /\ oplog' = <<>>
    /\ outlog' = <<>>
    /\ ncloses' = 0
    /\ shadow' = [shadow EXCEPT !.result = result']
    /\ UNCHANGED <<confVars, self, oneshot, gen, chunks, got, tracked, nfeeds>>

SetState ==
    /\ constructed
    /\ ~IsNone(snap)
    /\ self' = setstate(self, snap[1]).st
    /\ result' = [op |-> "setstate", exc |-> "none", val |-> <<>>]
    /\ shadow' = [st |-> setstate(shadow.st, snap[1]).st, result |-> result']
    /\ ncloses' = 0
    /\ logging' = FALSE
    /\ UNCHANGED <<confVars, snap, capt, logVars, oneshot, gen, chunks, got, tracked, nfeeds>>

SnapNext ==
    \/ SnapFeed
    \/ Close
    \/ Get
    \/ GetAll
    \/ Reset
    \/ GetState
    \/ SetState

SpecSnap == SnapInit /\ [][SnapNext]_vars

\* ------------------------------------------- UniversalNewlineSplitter
\* The state after UniversalNewlineSplitter(retain, translate) returned; track
\* says whether the behaviour records chunks and got.
NewlineInitWith(track) ==
    \E ret \in BOOLEAN, trans \in BOOLEAN :
        /\ constructed = TRUE
        /\ cls = "UniversalNewlineSplitter"
        /\ separator = <<>>
        /\ retain = ret
        /\ translate = trans
        /\ self = UniversalNewlineSplitterInit(ret, trans).st
        /\ snap = None
        /\ result = [op |-> "__init__", exc |-> "none", val |-> <<>>]
        /\ oneshot = None
        /\ chunks = <<>>
        /\ got = <<>>
        /\ tracked = track
        /\ nfeeds = 0
        /\ ncloses = 0
        /\ capt = None
        /\ logging = FALSE
        /\ oplog = <<>>
        /\ outlog = <<>>
        /\ shadow = [st |-> UniversalNewlineSplitterInit(ret, trans).st,
                     result |-> [op |-> "__init__", exc |-> "none", val |-> <<>>]]
        /\ selector = None
        /\ gen = NoGen

NewlineInit == NewlineInitWith(TRUE)

\* feed(data), for a chunk of letters, CRs and LFs.
NewlineFeed ==
    \E data \in NewlineStrsUpTo(MaxChunk) :
        /\ nfeeds < MaxFeeds
        /\ Done(Call("feed", data), feed(self, data))
        /\ chunks' = IF self.closed THEN chunks ELSE Append(chunks, data)
        /\ nfeeds' = nfeeds + 1
        /\ ncloses' = 0
        /\ shadow' = Shadowed(Call("feed", data), feed(shadow.st, data))
        /\ UNCHANGED <<confVars, snapVars, oneshot, gen, got, tracked>>

NewlineReset ==
    /\ Done(Call("reset", <<>>), reset(self))
    /\ chunks' = <<>>
    /\ got' = <<>>
    /\ ncloses' = 0
    /\ shadow' = Shadowed(Call("reset", <<>>), UniversalNewlineSplitterInit(retain, translate))
    /\ UNCHANGED <<confVars, snapVars, oneshot, gen, tracked, nfeeds>>

NewlineNext ==
    \/ NewlineFeed
    \/ Close
    \/ Get
    \/ GetAll
    \/ NewlineReset

SpecNewline == NewlineInit /\ [][NewlineNext]_vars

\* ------------------------------------------------- get_newline_splitter
\* repr() of one character of a str.
ReprChar(c) ==
    CASE c = "\r" -> <<"\\", "r">>
      [] c = "\n" -> <<"\\", "n">>
      [] OTHER -> <<c>>

\* repr() of a str that holds no quote: its characters, escaped, between quotes.
Repr(s) == <<"'">> \o Flatten([i \in 1..Len(s) |-> ReprChar(s[i])]) \o <<"'">>

\* What a constructor called by get_newline_splitter() hands back through it.
Made(c, sep, ret, trans, out) ==
    [exc |-> out.exc, msg |-> <<>>, cls |-> c, separator |-> sep, retain |-> ret,
     translate |-> trans, st |-> out.st]

\* get_newline_splitter with the two values of translate exchanged.
get_newline_splitter_exchanged(newline, ret) ==
    IF IsNone(newline)
    THEN Made("UniversalNewlineSplitter", <<>>, ret, FALSE,
              UniversalNewlineSplitterInit(ret, FALSE))
    ELSE IF newline[1] = <<>>
    THEN Made("UniversalNewlineSplitter", <<>>, ret, TRUE,
              UniversalNewlineSplitterInit(ret, TRUE))
    ELSE IF newline[1] \in {<<"\n">>, <<"\r", "\n">>, <<"\r">>}
    THEN Made("TerminatedSplitter", newline[1], ret, FALSE,
              ConstantSplitterInit(newline[1], ret))
    ELSE [exc |-> "ValueError",
          msg |-> <<"Invalid 'newline' value: ">> \o Repr(newline[1]),
          cls |-> "none", separator |-> <<>>, retain |-> ret, translate |-> FALSE,
          st |-> SplitterInit]

\* get_newline_splitter: the splitter it returns, or the ValueError it raises
\* with its message.
get_newline_splitter(newline, ret) ==
    IF IsNone(newline)
    THEN Made("UniversalNewlineSplitter", <<>>, ret, TRUE,
              UniversalNewlineSplitterInit(ret, TRUE))
    ELSE IF newline[1] = <<>>
    THEN Made("UniversalNewlineSplitter", <<>>, ret, FALSE,
              UniversalNewlineSplitterInit(ret, FALSE))
    ELSE IF newline[1] \in {<<"\n">>, <<"\r", "\n">>, <<"\r">>}
    THEN Made("TerminatedSplitter", newline[1], ret, FALSE,
              ConstantSplitterInit(newline[1], ret))
    ELSE [exc |-> "ValueError",
          msg |-> <<"Invalid 'newline' value: ">> \o Repr(newline[1]),
          cls |-> "none", separator |-> <<>>, retain |-> ret, translate |-> FALSE,
          st |-> SplitterInit]

\* The state after get_newline_splitter(newline, retain) returned made.
SelectorMade(newline, ret, made) ==
    /\ constructed = (made.exc = "none")
    /\ cls = made.cls
    /\ separator = made.separator
    /\ retain = made.retain
    /\ translate = made.translate
    /\ self = made.st
    /\ snap = None
    /\ result = [op |-> "get_newline_splitter", exc |-> made.exc, val |-> made.msg]
    /\ oneshot = None
    /\ chunks = <<>>
    /\ got = <<>>
    /\ tracked = TRUE
    /\ nfeeds = 0
    /\ ncloses = 0
    /\ capt = None
    /\ logging = FALSE
    /\ oplog = <<>>
    /\ outlog = <<>>
    /\ shadow = [st |-> made.st,
                 result |-> [op |-> "get_newline_splitter", exc |-> made.exc,
                             val |-> made.msg]]
    /\ selector = Some([newline |-> newline, retain |-> ret])
    /\ gen = NoGen

SelectorInit ==
    \E newline \in NewlineArgs, ret \in BOOLEAN :
        SelectorMade(newline, ret, get_newline_splitter(newline, ret))

\* feed(data) on the instance, at most maxFeeds times.
FeedData(data, maxFeeds) ==
    /\ constructed
    /\ nfeeds < maxFeeds
    /\ Done(Call("feed", data), feed(self, data))
    /\ chunks' = IF self.closed \/ ~tracked THEN chunks ELSE Append(chunks, data)
    /\ nfeeds' = nfeeds + 1
    /\ ncloses' = 0
    /\ shadow' = Shadowed(Call("feed", data), feed(shadow.st, data))
    /\ UNCHANGED <<confVars, snapVars, oneshot, gen, got, tracked>>

SelectorFeed == \E data \in NewlineStrsUpTo(MaxChunk) : FeedData(data, MaxSelectorFeeds)

SelectorNext ==
    \/ SelectorFeed
    \/ Close
    \/ Get
    \/ GetAll

SpecSelector == SelectorInit /\ [][SelectorNext]_vars

\* ---------------------------------------------------------- itersplit
\* The iterables handed to itersplit(): lists of chunks.
Iterables == UNION {[1..k -> StrsUpTo(MaxChunk)] : k \in 0..MaxIter}

\* No generator was started yet.
IterIdle == gen.phase \in {"none", "created"}

IterFeed == FeedWithin(MaxChunk, MaxIterFeeds)

\* itersplit(iterable): a generator is made, and nothing else happens yet.
Itersplit ==
    \E iterable \in Iterables :
        /\ constructed
        /\ gen.phase = "none"
        /\ gen' = [NoGen EXCEPT !.phase = "created", !.rest = iterable,
                                !.iterable = iterable]
        /\ result' = [op |-> "itersplit", exc |-> "none", val |-> <<>>]
        /\ shadow' = [shadow EXCEPT !.result = result']
        /\ ncloses' = 0
        /\ UNCHANGED <<confVars, snapVars, logVars, self, oneshot, chunks, got, tracked,
                       nfeeds>>

\* A step of the generator that left out.
GenDone(op, out) ==
    /\ self' = out.st
    /\ gen' = out.gen
    /\ result' = [op |-> op, exc |-> out.exc, val |-> out.val]
    /\ shadow' = [shadow EXCEPT !.result = result']
    /\ ncloses' = 0
    /\ UNCHANGED <<confVars, snapVars, logVars, oneshot, chunks, got, tracked, nfeeds>>

\* next() on the generator.
IterNext ==
    /\ gen.phase \in {"created", "suspended"}
    /\ GenDone("next", GenNext(self, gen))

\* close() on the generator, by the caller or when the generator is discarded.
IterClose ==
    /\ gen.phase \in {"created", "suspended"}
    /\ GenDone("generator.close", GenClose(self, gen))

\* The other methods are called before the generator is started: the
\* documentation of itersplit() asks that none is called while it runs.
IterNextStep ==
    \/ IterIdle /\ IterFeed
    \/ IterIdle /\ Close
    \/ IterIdle /\ Get
    \/ IterIdle /\ GetAll
    \/ Itersplit
    \/ IterNext
    \/ IterClose

SpecIter == SnapInit /\ [][IterNextStep]_vars

\* ------------------------------------- every class, every public method
\* The constructor of the class of the instance, called with its parameters.
Construct ==
    IF cls = "UniversalNewlineSplitter"
    THEN UniversalNewlineSplitterInit(retain, translate)
    ELSE ConstantSplitterInit(separator, retain)

OpsInit == InitWith(FALSE) \/ NewlineInitWith(FALSE)

\* The chunks handed to the instance: CRs and LFs for a UniversalNewlineSplitter.
OpsData ==
    IF cls = "UniversalNewlineSplitter"
    THEN NewlineStrsUpTo(MaxChunk)
    ELSE StrsUpTo(MaxChunk)

OpsFeed == \E data \in OpsData : FeedData(data, MaxOpsFeeds)

\* A call of split(data, final) that returned out: the outcome keeps the arguments.
SplitDone(data, final, out) ==
    /\ self' = out.st
    /\ result' = [op |-> "split", exc |-> out.exc, val |-> out.val,
                  args |-> [data |-> data, final |-> final]]

\* split(data, final)
OpsSplit ==
    \E data \in OpsData, final \in BOOLEAN :
        /\ constructed
        /\ nfeeds < MaxOpsFeeds
        /\ SplitDone(data, final, split(self, data, final))
        /\ nfeeds' = nfeeds + 1
        /\ ncloses' = 0
        /\ shadow' = [st |-> split(shadow.st, data, final).st, result |-> result']
        /\ UNCHANGED <<confVars, snapVars, logVars, oneshot, gen, chunks, got, tracked>>

OpsReset ==
    /\ constructed
    /\ Done(Call("reset", <<>>), reset(self))
    /\ ncloses' = 0
    /\ shadow' = Shadowed(Call("reset", <<>>), Construct)
    /\ UNCHANGED <<confVars, snapVars, oneshot, gen, chunks, got, tracked, nfeeds>>

\* getstate(), the SplitterState being kept for a later setstate().
OpsGetState ==
    /\ constructed
    /\ snap' = Some(getstate(self))
    /\ result' = [op |-> "getstate", exc |-> "none", val |-> <<>>]
    /\ ncloses' = 0
    /\ shadow' = [shadow EXCEPT !.result = result']
    /\ UNCHANGED <<confVars, capt, logging, logVars, self, oneshot, gen, chunks, got,
                   tracked, nfeeds>>

\* setstate() with the SplitterState last returned by getstate().
OpsSetState ==
    /\ constructed
    /\ ~IsNone(snap)
    /\ self' = setstate(self, snap[1]).st
    /\ result' = [op |-> "setstate", exc |-> "none", val |-> <<>>]
    /\ ncloses' = 0
    /\ shadow' = [st |-> setstate(shadow.st, snap[1]).st, result |-> result']
    /\ UNCHANGED <<confVars, snapVars, logVars, oneshot, gen, chunks, got, tracked, nfeeds>>

OpsNext ==
    \/ OpsFeed
    \/ OpsSplit
    \/ Close
    \/ Get
    \/ GetAll
    \/ OpsReset
    \/ OpsGetState
    \/ OpsSetState

SpecOps == OpsInit /\ [][OpsNext]_vars

\* ------------------------------ every class, with the history of the input
TrackedInit == InitWith(TRUE) \/ NewlineInitWith(TRUE)

TrackedFeed == \E data \in OpsData : FeedData(data, MaxOpsFeeds)

TrackedReset ==
    /\ constructed
    /\ Done(Call("reset", <<>>), reset(self))
    /\ chunks' = <<>>
    /\ got' = <<>>
    /\ ncloses' = 0
    /\ shadow' = Shadowed(Call("reset", <<>>), Construct)
    /\ UNCHANGED <<confVars, snapVars, oneshot, gen, tracked, nfeeds>>

TrackedNext ==
    \/ TrackedFeed
    \/ Close
    \/ Get
    \/ GetAll
    \/ TrackedReset

SpecTracked == TrackedInit /\ [][TrackedNext]_vars

\* ------------------------------------------------------ the join functions
\* join_terminated putting the separator between the entries, as join_separated does.
join_terminated_between(iterable, sep) ==
    Flatten([k \in 1..Len(iterable) |->
                IF k = Len(iterable) THEN iterable[k] ELSE iterable[k] \o sep])

\* join_terminated: sep[0:0].join(s + sep for s in iterable)
join_terminated(iterable, sep) ==
    Flatten([k \in 1..Len(iterable) |-> iterable[k] \o sep])

\* ------------------------------------------------ the one-shot functions
RECURSIVE FindIter(_, _, _)
\* seppattern.finditer(s) for the pattern _ensure_compiled makes of a literal,
\* re.compile(re.escape(sep)): the spans of the successive leftmost matches of
\* sep in s, each search starting where the match before ended.
FindIter(s, sep, pos) ==
    LET i == StrIndex(Slice(s, pos, Len(s)), sep)
    IN IF i = -1
       THEN <<>>
       ELSE <<<<pos + i, pos + i + Len(sep)>>>> \o FindIter(s, sep, pos + i + Len(sep))

RECURSIVE SplitSeparatedLoop(_, _, _, _, _)
\* The for loop of split_separated, and the append that follows it.
SplitSeparatedLoop(s, matches, ret, lastend, entries) ==
    IF Len(matches) = 0
    THEN Append(entries, Slice(s, lastend, Len(s)))
    ELSE LET m == Head(matches)
             e1 == Append(entries, Slice(s, lastend, m[1]))
             e2 == IF ret THEN Append(e1, Slice(s, m[1], m[2])) ELSE e1
         IN SplitSeparatedLoop(s, Tail(matches), ret, m[2], e2)

\* split_separated
split_separated(s, sep, ret) == SplitSeparatedLoop(s, FindIter(s, sep, 0), ret, 0, <<>>)

RECURSIVE JoinPairs(_)
\* _join_pairs
JoinPairs(seq) ==
    IF Len(seq) = 0 THEN <<>>
    ELSE IF Len(seq) = 1 THEN seq
    ELSE <<seq[1] \o seq[2]>> \o JoinPairs(Tail(Tail(seq)))

\* split_preceded
split_preceded(s, sep, ret) ==
    LET entries == split_separated(s, sep, ret)
        joined == IF ret THEN <<Head(entries)>> \o JoinPairs(Tail(entries)) ELSE entries
    IN IF Len(Head(joined)) = 0 THEN Tail(joined) ELSE joined

\* split_terminated keeping an empty last entry.
split_terminated_keep_last(s, sep, ret) ==
    LET entries == split_separated(s, sep, ret)
    IN IF ret THEN JoinPairs(entries) ELSE entries

\* split_terminated
split_terminated(s, sep, ret) ==
    LET entries == split_separated(s, sep, ret)
        joined == IF ret THEN JoinPairs(entries) ELSE entries
    IN IF Len(joined[Len(joined)]) = 0 THEN SubSeq(joined, 1, Len(joined) - 1) ELSE joined

\* The one-shot function that goes with the class of the instance.
SplitFunction(s, sep, ret) ==
    CASE cls = "TerminatedSplitter" -> split_terminated(s, sep, ret)
      [] cls = "SeparatedSplitter" -> split_separated(s, sep, ret)
      [] cls = "PrecededSplitter" -> split_preceded(s, sep, ret)

\* One feed() of a whole string.
WholeFeed == FeedWithin(MaxStr, 1)

\* A call of the one-shot function on the string the instance was fed, with
\* the separator and the retain flag the instance was constructed with.
CallSplit ==
    /\ constructed
    /\ IsNone(oneshot)
    /\ Len(chunks) = 1
    /\ oneshot' = Some(SplitFunction(chunks[1], separator, retain))
    /\ UNCHANGED <<confVars, snapVars, logVars, self, result, chunks, got, tracked,
                   nfeeds, ncloses, shadow, gen>>

OneShotNext ==
    \/ WholeFeed
    \/ Close
    \/ Get
    \/ GetAll
    \/ CallSplit

SpecOneShot == Init /\ [][OneShotNext]_vars

\* ------------------------------------------------------------- the claims
\* Every item put on the queue since construction or reset(), in order: the
\* items handed out followed by the items still queued.
Emitted == got \o self.items

\* The fields of a newly constructed instance with the same parameters.
New == ConstantSplitterInit(separator, retain).st

RECURSIVE FeedAll(_, _)
\* The fields after feeding the chunks cs in order.
FeedAll(st, cs) ==
    IF Len(cs) = 0 THEN st ELSE FeedAll(feed(st, Head(cs)).st, Tail(cs))

\* What a new instance returns from getall() after one feed(s) and close().
WholeRun(s) == getall(close(feed(New, s).st).st).val

\* What a new instance returns from one getall() after the feeds cs and close().
ChunkedRun(cs) == getall(close(FeedAll(New, cs)).st).val

RECURSIVE Replay(_, _)
\* What the calls raise and return when made in order from the fields st.
Replay(st, calls) ==
    IF Len(calls) = 0 THEN <<>>
    ELSE <<Outcome(Head(calls), Apply(st, Head(calls)))>>
         \o Replay(Apply(st, Head(calls)).st, Tail(calls))

\* C1 as stated: once closed, the items emitted for the chunks fed, however
\* many (none included), are the items emitted for one feed() of their
\* concatenation followed by close().
C1_ChunkInvarianceAnyPartition ==
    (constructed /\ self.closed) => Emitted = WholeRun(Flatten(chunks))

\* C1 amended: once closed after at least one feed(), the items emitted for
\* the chunks fed are the items emitted for one feed() of their concatenation
\* followed by close().
C1_ChunkInvariance ==
    (constructed /\ self.closed /\ Len(chunks) >= 1)
        => Emitted = WholeRun(Flatten(chunks))

\* A closed splitter whose two-character separator was found although neither
\* of the two chunks fed holds it.
C1_Witness ==
    /\ constructed /\ self.closed
    /\ Len(chunks) = 2
    /\ StrIndex(chunks[1], separator) = -1
    /\ StrIndex(chunks[2], separator) = -1
    /\ StrIndex(Flatten(chunks), separator) # -1
    /\ Len(Emitted) >= 1

\* C2: the list the one-shot split function returns for s is the list of
\* items of the matching splitter fed s once, closed and drained.
C2_OneShotEquivalence ==
    (constructed /\ ~IsNone(oneshot) /\ self.closed /\ Len(chunks) = 1)
        => Emitted = oneshot[1]

\* The one-shot function was called on a string holding a two-character
\* separator at least twice, and the splitter fed that string is closed and drained.
C2_Witness ==
    /\ constructed /\ ~IsNone(oneshot) /\ self.closed
    /\ Len(chunks) = 1
    /\ Len(separator) = 2
    /\ Len(FindIter(chunks[1], separator, 0)) >= 2
    /\ Len(self.items) = 0
    /\ Len(got) >= 2

\* C3: for a closed SeparatedSplitter with retain, the concatenation of all the
\* items emitted is the concatenation of the chunks fed.
C3_RoundTrip ==
    (constructed /\ cls = "SeparatedSplitter" /\ retain /\ self.closed)
        => Flatten(Emitted) = Flatten(chunks)

\* A closed SeparatedSplitter with retain that was fed three chunks and emitted
\* a separator between two segments.
C3_Witness ==
    /\ constructed /\ cls = "SeparatedSplitter" /\ retain /\ self.closed
    /\ Len(chunks) = 3
    /\ Len(Emitted) >= 3
    /\ Emitted[2] = separator

\* C4: right after setstate() the fields are those at the time of the
\* getstate() that returned the snapshot, and the calls made after that
\* getstate(), made again on the restored fields, raise and return what they
\* did the first time.
C4_SnapshotRestoreExact ==
    /\ (result.op = "setstate" => self = capt[1])
    /\ (~IsNone(snap) => Replay(setstate(self, snap[1]).st, oplog) = outlog)

\* setstate() has just restored a snapshot taken with a queued item, buffered
\* data and an occupied hold space, after a feed() that was accepted and was
\* given data.
C4_Witness ==
    /\ result.op = "setstate"
    /\ Len(capt[1].items) > 0
    /\ ~IsNone(capt[1].buff)
    /\ ~IsNone(capt[1].hold)
    /\ Len(oplog) >= 1
    /\ oplog[1].name = "feed"
    /\ Len(oplog[1].data) > 0
    /\ outlog[1].exc = "none"

\* C5: a feed() on a closed splitter raises SplitterClosedError and leaves
\* every field as it was, the closed flag included.
C5_FeedOnClosed ==
    [][(result'.op = "feed" /\ self.closed)
          => (result'.exc = "SplitterClosedError" /\ self' = self)]_vars

\* A feed() was rejected while items were still queued.
C5_Witness ==
    /\ result.op = "feed"
    /\ result.exc = "SplitterClosedError"
    /\ self.closed
    /\ Len(self.items) > 0

\* C6: get() raises SplitterEmptyError exactly when the queue is empty, which
\* is exactly when nonempty is false, and a get() that raises leaves every
\* field as it was.
C6_GetOnEmpty ==
    [][result'.op = "get"
          => /\ (result'.exc = "SplitterEmptyError") <=> (Len(self.items) = 0)
             /\ (Len(self.items) = 0) <=> ~nonempty(self)
             /\ (result'.exc = "SplitterEmptyError") => (self' = self)]_vars

\* A get() failed on an open splitter that holds buffered data.
C6_Witness ==
    /\ result.op = "get"
    /\ result.exc = "SplitterEmptyError"
    /\ ~self.closed
    /\ ~IsNone(self.buff)
    /\ Len(self.buff[1]) > 0

\* C7: a constructor call with an empty separator raises ValueError and yields
\* no instance, so every instance has a non-empty separator.
C7_EmptySeparatorRejected ==
    /\ (Len(separator) = 0 => (~constructed /\ result.exc = "ValueError"))
    /\ (constructed => Len(separator) > 0)

\* The constructor was called with an empty separator and raised.
C7_Witness ==
    /\ Len(separator) = 0
    /\ result.op = "__init__"
    /\ result.exc = "ValueError"

\* C8: a close() on a closed splitter raises nothing and leaves every field,
\* the queue included, as it was.
C8_CloseIdempotent ==
    [][(result'.op = "close" /\ self.closed)
          => (result'.exc = "none" /\ self' = self)]_vars

\* close() was called twice in a row on a splitter whose first close()
\* flushed an item.
C8_Witness ==
    /\ ncloses = 2
    /\ self.closed
    /\ Len(self.items) > 0
    /\ Len(chunks) >= 1

\* C9: once closed, the items handed out so far by get() and getall(), in call
\* order, followed by what a getall() would return now, are what one getall()
\* returns from a new instance given the same feeds and closed.
C9_FifoOrder ==
    (constructed /\ self.closed) => got \o getall(self).val = ChunkedRun(chunks)

\* Items were fetched before the close(), which queued another item; two
\* different items were handed out.
C9_Witness ==
    /\ constructed /\ self.closed
    /\ result.op = "close"
    /\ Len(got) >= 2
    /\ got[1] # got[2]
    /\ Len(self.items) >= 1

\* C10: from a reset() on, the fields and the outcome of every call are those
\* of an instance constructed at the time of the reset() and given the same
\* calls.
C10_ResetIsNew ==
    constructed => (self = shadow.st /\ result = shadow.result)

\* A feed() was accepted, and emitted an item, after a reset() that followed
\* earlier feeds.
C10_Witness ==
    /\ constructed
    /\ result.op = "feed"
    /\ result.exc = "none"
    /\ nfeeds > Len(chunks)
    /\ Len(chunks) >= 1
    /\ Len(self.items) > 0

\* ------------------------------------------- the rules of the three classes
\* The data accepted by feed() since construction or reset(), as one string.
Input == Flatten(chunks)

StartsWith(x, pre) == Len(x) >= Len(pre) /\ Slice(x, 0, Len(pre)) = pre

EndsWith(x, suf) == Len(x) >= Len(suf) /\ Slice(x, Len(x) - Len(suf), Len(x)) = suf

\* The spans of the separators of s: the leftmost occurrence, then the
\* leftmost one that starts where it ended or later, and so on.
Spans(s) == FindIter(s, separator, 0)

\* The segments the spans cut s into: one before each span and one after the last.
SegmentsOf(s, spans) ==
    [k \in 1..(Len(spans) + 1) |->
        Slice(s, IF k = 1 THEN 0 ELSE spans[k - 1][2],
                 IF k = Len(spans) + 1 THEN Len(s) ELSE spans[k][1])]

Segments(s) == SegmentsOf(s, Spans(s))

\* The separator as it is glued to an item: itself with retain, nothing without.
Glue == IF retain THEN separator ELSE <<>>

\* C11: a closed TerminatedSplitter has emitted one item for each segment
\* that a separator follows, empty or not, and after them the unterminated
\* tail of the input if and only if that tail is not empty.
C11_TerminatedEndOfStream ==
    (constructed /\ cls = "TerminatedSplitter" /\ self.closed)
        => /\ Len(Emitted) = Len(Spans(Input))
                             + (IF Len(Segments(Input)[Len(Spans(Input)) + 1]) > 0
                                THEN 1 ELSE 0)
           /\ \A k \in 1..Len(Spans(Input)) : Emitted[k] = Segments(Input)[k] \o Glue
           /\ Len(Emitted) > Len(Spans(Input))
                  => Emitted[Len(Emitted)] = Segments(Input)[Len(Spans(Input)) + 1]

\* A closed TerminatedSplitter without retain whose input ended with the
\* separator and held an empty segment followed by a separator: the empty
\* segment was emitted, and nothing after the last separator.
C11_Witness ==
    /\ constructed /\ cls = "TerminatedSplitter" /\ ~retain /\ self.closed
    /\ Len(Spans(Input)) >= 2
    /\ EndsWith(Input, separator)
    /\ Len(Emitted) = Len(Spans(Input))
    /\ \E k \in 1..Len(Emitted) : Len(Emitted[k]) = 0

\* C12: for a TerminatedSplitter with retain, every item a feed() puts on the
\* queue ends with the separator; a close() puts at most one item on the queue,
\* which is not empty and does not contain the separator; so every item emitted
\* ends with the separator, except possibly the last one of a closed splitter.
C12_TerminatedRetainSuffix ==
    /\ []((constructed /\ cls = "TerminatedSplitter" /\ retain)
            => \A i \in 1..Len(Emitted) :
                  \/ EndsWith(Emitted[i], separator)
                  \/ /\ i = Len(Emitted)
                     /\ self.closed
                     /\ Len(Emitted[i]) > 0
                     /\ StrIndex(Emitted[i], separator) = -1)
    /\ [][(constructed /\ cls = "TerminatedSplitter" /\ retain)
            => /\ result'.op = "feed"
                  => \A i \in (Len(self.items) + 1)..Len(self'.items) :
                        EndsWith(self'.items[i], separator)
               /\ result'.op = "close"
                  => /\ Len(self'.items) <= Len(self.items) + 1
                     /\ \A i \in (Len(self.items) + 1)..Len(self'.items) :
                           /\ Len(self'.items[i]) > 0
                           /\ StrIndex(self'.items[i], separator) = -1]_vars

\* A close() of a TerminatedSplitter with retain has just flushed an
\* unterminated tail after an item that ends with the separator.
C12_Witness ==
    /\ constructed /\ cls = "TerminatedSplitter" /\ retain /\ self.closed
    /\ result.op = "close"
    /\ Len(Emitted) >= 2
    /\ EndsWith(Emitted[1], separator)
    /\ ~EndsWith(Emitted[Len(Emitted)], separator)

\* The segment items among the items of a SeparatedSplitter: every item
\* without retain, every other item starting with the first with retain.
SegmentItems(items) ==
    IF retain
    THEN [k \in 1..((Len(items) + 1) \div 2) |-> items[2 * k - 1]]
    ELSE items

C14_SeparatedAlternation ==
    (constructed /\ cls = "SeparatedSplitter" /\ retain)
        => \A i \in 1..Len(Emitted) :
              IF i % 2 = 0
              THEN Emitted[i] = separator
              ELSE /\ Emitted[i] = Segments(Input)[(i + 1) \div 2]
                   /\ StrIndex(Emitted[i], separator) = -1

\* A SeparatedSplitter with retain has emitted two segments and two
\* separators, some of them handed out already, and is still open.
C14_Witness ==
    /\ constructed /\ cls = "SeparatedSplitter" /\ retain /\ ~self.closed
    /\ Len(Emitted) = 4
    /\ Len(got) >= 1
    /\ Emitted[2] = separator /\ Emitted[4] = separator
    /\ Emitted[1] # Emitted[3]

\* The items a closed PrecededSplitter is to emit for the segments segs: the
\* first segment unless it is empty, then every other segment, empty or not,
\* after the separator when it is retained.
PrecededItems(segs) ==
    (IF Len(segs[1]) > 0 THEN <<segs[1]>> ELSE <<>>)
        \o [k \in 1..(Len(segs) - 1) |-> Glue \o segs[k + 1]]

C16_PrecededRetainPrefix ==
    (constructed /\ cls = "PrecededSplitter" /\ retain)
        => /\ \A i \in 1..Len(Emitted) :
                 \/ StartsWith(Emitted[i], separator)
                 \/ /\ i = 1
                    /\ Len(Segments(Input)[1]) > 0
                    /\ Emitted[1] = Segments(Input)[1]
           /\ self.closed => Emitted = PrecededItems(Segments(Input))

\* A closed PrecededSplitter with retain has emitted a non-empty leading
\* segment and two items that start with the separator, fed in several chunks.
C16_Witness ==
    /\ constructed /\ cls = "PrecededSplitter" /\ retain /\ self.closed
    /\ Len(chunks) >= 2
    /\ Len(Emitted) = 3
    /\ ~StartsWith(Emitted[1], separator)
    /\ StartsWith(Emitted[2], separator)
    /\ StartsWith(Emitted[3], separator)

\* ------------------------------------ the rules of UniversalNewlineSplitter
CR == <<"\r">>
LF == <<"\n">>

RECURSIVE Terminators(_, _)
\* The spans of the line terminators of s from index pos on, read from left
\* to right: an LF, a CR with the LF that follows it at once, or a CR alone.
Terminators(s, pos) ==
    IF pos >= Len(s)
    THEN <<>>
    ELSE IF s[pos + 1] = "\n"
    THEN <<<<pos, pos + 1>>>> \o Terminators(s, pos + 1)
    ELSE IF s[pos + 1] # "\r"
    THEN Terminators(s, pos + 1)
    ELSE IF pos + 2 <= Len(s) /\ s[pos + 2] = "\n"
    THEN <<<<pos, pos + 2>>>> \o Terminators(s, pos + 2)
    ELSE <<<<pos, pos + 1>>>> \o Terminators(s, pos + 1)

\* The lines of s without their terminators, the unterminated tail last.
Lines(s) == SegmentsOf(s, Terminators(s, 0))

\* The buffer of an open splitter ends with a CR.
CRWithheld == ~self.closed /\ ~IsNone(self.buff) /\ EndsWith(self.buff[1], CR)

\* The number of terminators of the input that the splitter has matched: all
\* of them but a CR that an open splitter has at the end of its input.
Matched ==
    Len(Terminators(Input, 0)) - (IF ~self.closed /\ EndsWith(Input, CR) THEN 1 ELSE 0)

\* The fields of a newly constructed UniversalNewlineSplitter with the same parameters.
NewlineNew == UniversalNewlineSplitterInit(retain, translate).st

\* What a new instance returns from getall() after one feed(s) and close().
NewlineWholeRun(s) == getall(close(feed(NewlineNew, s).st).st).val

\* C17: while an open UniversalNewlineSplitter has an input that ends with a
\* CR, the line before that CR and the CR are in the buffer and no item was
\* emitted for them; from there a feed() emits an item if and only if its data
\* is not empty, a close() emits one, and get() and getall() leave the buffer alone.
C17_CRWithheld ==
    /\ []((~self.closed /\ EndsWith(Input, CR))
            => /\ self.buff = Some(Lines(Input)[Len(Terminators(Input, 0))] \o CR)
               /\ IsNone(self.hold)
               /\ Len(Emitted) = Len(Terminators(Input, 0)) - 1)
    /\ [][CRWithheld
            => /\ result'.op = "feed"
                  => /\ Len(chunks') = Len(chunks) + 1
                     /\ (Len(self'.items) > Len(self.items))
                            <=> (Len(chunks'[Len(chunks')]) > 0)
               /\ result'.op = "close" => Len(self'.items) = Len(self.items) + 1
               /\ result'.op \in {"get", "getall"} => self'.buff = self.buff]_vars

\* A feed() has just left a letter and a CR in the buffer of an open splitter
\* and no item was emitted for them.
C17_Witness ==
    /\ result.op = "feed"
    /\ ~self.closed
    /\ self.buff = Some(<<"a", "\r">>)
    /\ Len(chunks) >= 2
    /\ Len(Emitted) = Len(Terminators(Input, 0)) - 1

\* The terminator as close() glues it to the line before a withheld CR.
LoneCRGlue == IF ~retain THEN <<>> ELSE IF translate THEN LF ELSE CR

\* C18: a close() of a splitter whose buffer ends with a withheld CR puts
\* exactly one item on the queue, the line before the CR followed by nothing
\* (no retain), by the CR (retain, no translate) or by an LF (retain and
\* translate), and leaves nothing in the buffer or in the hold space.
C18_CloseResolvesCR ==
    [][(CRWithheld /\ result'.op = "close")
          => /\ result'.exc = "none"
             /\ self'.items = Append(self.items,
                    Slice(self.buff[1], 0, Len(self.buff[1]) - 1) \o LoneCRGlue)
             /\ IsNone(self'.buff)
             /\ IsNone(self'.hold)
             /\ self'.closed]_vars

\* A close() has just emitted, with an LF in place of the withheld CR, the
\* line that was in the buffer of a splitter with retain and translate.
C18_Witness ==
    /\ result.op = "close"
    /\ ncloses = 1
    /\ retain /\ translate
    /\ EndsWith(Input, <<"a", "\r">>)
    /\ Len(self.items) >= 1
    /\ self.items[Len(self.items)] = <<"a", "\n">>

\* C19: with retain, the item emitted for each terminator matched is the line
\* before it followed by an LF with translate, whichever terminator it was,
\* and by the terminator as it stands in the input without translate; with
\* translate no item emitted holds a CR.
C19_Translation ==
    retain
        => /\ Len(Emitted) >= Matched
           /\ \A k \in 1..Matched :
                 Emitted[k] = Lines(Input)[k]
                              \o (IF translate
                                  THEN LF
                                  ELSE Slice(Input, Terminators(Input, 0)[k][1],
                                                    Terminators(Input, 0)[k][2]))
           /\ translate => \A i \in 1..Len(Emitted) :
                              \A j \in 1..Len(Emitted[i]) : Emitted[i][j] # "\r"

\* With retain and translate, an item was emitted for a CR followed by an LF
\* and another for a CR alone, and each ends with one LF.
C19_Witness ==
    /\ retain /\ translate
    /\ Matched >= 2
    /\ \E k \in 1..Matched :
          Terminators(Input, 0)[k][2] - Terminators(Input, 0)[k][1] = 2
    /\ \E k \in 1..Matched :
          Slice(Input, Terminators(Input, 0)[k][1], Terminators(Input, 0)[k][2]) = CR
    /\ \A k \in 1..Matched : EndsWith(Emitted[k], LF)

\* C20: once a UniversalNewlineSplitter is closed, the items emitted for the
\* chunks fed, however the input was cut, are the items emitted for one feed()
\* of their concatenation followed by close(): one item for each terminator,
\* a CR followed by an LF being one terminator, and one for a non-empty tail.
C20_NewlineChunkInvariance ==
    self.closed
        => /\ Emitted = NewlineWholeRun(Input)
           /\ Len(Emitted) = Len(Terminators(Input, 0))
                             + (IF Len(Lines(Input)[Len(Terminators(Input, 0)) + 1]) > 0
                                THEN 1 ELSE 0)

\* A closed splitter with retain and without translate was fed a chunk that
\* ends with a CR and then a chunk that starts with an LF, and emitted one
\* item for the two.
C20_Witness ==
    /\ self.closed
    /\ retain /\ ~translate
    /\ Len(chunks) >= 2
    /\ EndsWith(chunks[1], CR)
    /\ StartsWith(chunks[2], LF)
    /\ Len(Terminators(Input, 0)) = 1
    /\ Len(Emitted) >= 1
    /\ EndsWith(Emitted[1], CR \o LF)

\* ------------------------------------------------- get_newline_splitter
RECURSIVE Unescape(_)
\* The characters that the escaped characters chars stand for.
Unescape(chars) ==
    IF Len(chars) = 0
    THEN <<>>
    ELSE IF chars[1] # "\\"
    THEN <<chars[1]>> \o Unescape(Tail(chars))
    ELSE <<IF chars[2] = "r" THEN "\r" ELSE "\n">> \o Unescape(Tail(Tail(chars)))

\* The str that is written between the quotes of text.
Quoted(text) == Unescape(SubSeq(text, 2, Len(text) - 1))

\* C21: get_newline_splitter(newline, retain) gives a UniversalNewlineSplitter
\* with translate for None and without translate for the empty string, a
\* TerminatedSplitter on the literal for LF, CR and CRLF, each with the retain
\* given and the fields of a newly constructed instance, and for any other
\* value raises a ValueError whose message ends with the value, quoted.
C21_NewlineSelector ==
    ~IsNone(selector)
        => /\ IsNone(selector[1].newline)
                 => /\ constructed /\ cls = "UniversalNewlineSplitter"
                    /\ retain = selector[1].retain /\ translate
           /\ selector[1].newline = Some(<<>>)
                 => /\ constructed /\ cls = "UniversalNewlineSplitter"
                    /\ retain = selector[1].retain /\ ~translate
           /\ selector[1].newline \in {Some(LF), Some(CR), Some(CR \o LF)}
                 => /\ constructed /\ cls = "TerminatedSplitter"
                    /\ retain = selector[1].retain
                    /\ separator = selector[1].newline[1]
           /\ selector[1].newline \notin {None, Some(<<>>), Some(LF), Some(CR), Some(CR \o LF)}
                 => /\ ~constructed
                    /\ result.op = "get_newline_splitter"
                    /\ result.exc = "ValueError"
                    /\ Quoted(Tail(result.val)) = selector[1].newline[1]
           /\ (constructed /\ result.op = "get_newline_splitter")
                 => self = (IF cls = "UniversalNewlineSplitter"
                            THEN UniversalNewlineSplitterInit(retain, translate).st
                            ELSE ConstantSplitterInit(separator, retain).st)

\* get_newline_splitter("\r\n", retain=True) gave a TerminatedSplitter that was
\* fed a line in two chunks and emitted it with its CRLF.
C21_Witness ==
    /\ ~IsNone(selector)
    /\ selector[1].newline = Some(CR \o LF)
    /\ selector[1].retain
    /\ cls = "TerminatedSplitter"
    /\ Len(chunks) = 2
    /\ Emitted = <<<<"a">> \o CR \o LF>>

\* ---------------------------------------------------------- itersplit
\* The generator was started: its body has run up to a yield or to its end.
Started == gen.phase \in {"suspended", "done"} /\ ~IsNone(gen.before)

\* The generator has come to the end of its body.
Exhausted == gen.phase = "done" /\ gen.final /\ Len(gen.pending) = 0

\* The chunks the generator has taken from its iterable.
Consumed == SubSeq(gen.iterable, 1, Len(gen.iterable) - Len(gen.rest))

\* The five fields of st, as a SplitterState holds them.
Fields(st) ==
    [items |-> st.items, buff |-> st.buff, hold |-> st.hold, closed |-> st.closed,
     first |-> st.first]

\* C22: when the generator of itersplit() has ended, by coming to its end or
\* by being closed, the queue, the buffer, the hold space, the closed flag and
\* the first flag are what they were when the generator was started.
C22_ItersplitRestores ==
    (Started /\ gen.phase = "done") => Fields(self) = Fields(gen.before[1])

\* The generator has yielded two items or more and come to its end on a
\* splitter that, when the generator was started, was closed with an item queued.
C22_Witness ==
    /\ Started /\ Exhausted
    /\ result.op = "next" /\ result.exc = "StopIteration"
    /\ Len(gen.yielded) >= 2
    /\ gen.before[1].closed
    /\ Len(gen.before[1].items) >= 1
    /\ self.closed
    /\ Len(self.items) >= 1

\* C23: the items the generator of itersplit(chunks) has yielded so far are
\* the first of the items a newly constructed splitter with the same parameters
\* emits when fed the chunks and closed, and all of them in order once the
\* generator has come to its end, whatever the splitter held before.
C23_ItersplitOutput ==
    Started
        => /\ Len(gen.yielded) <= Len(ChunkedRun(gen.iterable))
           /\ gen.yielded = SubSeq(ChunkedRun(gen.iterable), 1, Len(gen.yielded))
           /\ Exhausted => gen.yielded = ChunkedRun(gen.iterable)

\* The generator has come to its end after two chunks and two items or more,
\* none of which is the item that was queued, on a splitter that had data in
\* its buffer when the generator was started.
C23_Witness ==
    /\ Started /\ Exhausted
    /\ Len(gen.iterable) = 2
    /\ Len(gen.yielded) >= 2
    /\ Len(gen.before[1].items) >= 1
    /\ \A i \in 1..Len(gen.yielded) : gen.yielded[i] # gen.before[1].items[1]
    /\ ~IsNone(gen.before[1].buff)
    /\ Len(gen.before[1].buff[1]) >= 1

\* C24: while the generator is suspended at a yield, the splitter is in the
\* state of a new one that was given split() for each chunk taken so far from
\* the iterable, and close() and getall() if the iterable is exhausted; the
\* state saved at the start is put back by the step that ends the generator,
\* and only by it.
C24_ItersplitAbandoned ==
    /\ [](gen.phase = "suspended"
            => self = (IF gen.final
                       THEN getall(close(FeedAll(New, Consumed)).st).st
                       ELSE getall(FeedAll(New, Consumed)).st))
    /\ [][(gen.phase = "suspended" /\ gen'.phase = "done")
            => Fields(self') = Fields(gen.before[1])]_vars

\* The generator is suspended before the end of its iterable on a splitter
\* that was closed, with an item queued, when the generator was started: the
\* splitter is open and its queue is empty.
C24_Witness ==
    /\ gen.phase = "suspended"
    /\ Len(gen.rest) >= 1
    /\ Len(gen.yielded) >= 1
    /\ gen.before[1].closed
    /\ Len(gen.before[1].items) >= 1
    /\ ~self.closed
    /\ Len(self.items) = 0

\* What feed(data); close() if final; getall() leave and return, the calls
\* made one after another on the fields st of an open splitter.
Composed(st, data, final) ==
    getall(IF final THEN close(feed(st, data).st).st ELSE feed(st, data).st)

\* The queue of st after feed(data) and, if final, close().
QueueAfter(st, data, final) ==
    (IF final THEN close(feed(st, data).st).st ELSE feed(st, data).st).items

SplitIsComposition(before, after, res) ==
    IF before.closed
    THEN res.exc = "SplitterClosedError" /\ after = before
    ELSE /\ res.exc = "none"
         /\ res.val = Composed(before, res.args.data, res.args.final).val
         /\ after = Composed(before, res.args.data, res.args.final).st
         /\ res.val = QueueAfter(before, res.args.data, res.args.final)
         /\ Len(res.val) >= Len(before.items)
         /\ SubSeq(res.val, 1, Len(before.items)) = before.items
         /\ after.items = <<>>

\* C25: split(data, final) does what feed(data), then close() if final, then
\* getall() do: on an open splitter it returns the whole queue left by those
\* calls, the items that were already queued first, and leaves the queue
\* empty; on a closed splitter it raises SplitterClosedError as feed() does.
C25_SplitComposition ==
    [][result'.op = "split" => SplitIsComposition(self, self', result')]_vars

\* A final split() that returned an item queued by an earlier call ahead of
\* the one item that the chunk "a" and the end of input make.
C25_Witness ==
    /\ result.op = "split"
    /\ result.exc = "none"
    /\ cls = "SeparatedSplitter"
    /\ ~retain
    /\ result.args.data = <<"a">>
    /\ result.args.final
    /\ Len(result.val) >= 2

\* C26: getall() returns the queue as it is, in its order (the empty list when
\* nothing is queued), and leaves the queue empty: nonempty is false right
\* after it, and a getall() called next returns the empty list.
C26_GetallDrains ==
    /\ [][result'.op = "getall"
            => /\ result'.exc = "none"
               /\ result'.val = self.items
               /\ self'.items = <<>>
               /\ ~nonempty(self')
               /\ getall(self').val = <<>>]_vars
    /\ [][(result.op = "getall" /\ result'.op = "getall") => result'.val = <<>>]_vars

\* getall() returned several items at once.
C26_Witness ==
    /\ result.op = "getall"
    /\ Len(result.val) >= 2
    /\ result.val[1] # result.val[2]
    /\ self.items = <<>>

\* C27: setstate() sets the closed flag to that of the SplitterState: after
\* the state of an open splitter is restored onto a closed one, feed() is
\* accepted, and after the state of a closed splitter is restored onto an
\* open one, feed() raises SplitterClosedError.
C27_SetstateClosed ==
    /\ [][result'.op = "setstate"
            => /\ closed(self') = snap[1].closed
               /\ (self.closed /\ ~snap[1].closed)
                    => \A data \in StrsUpTo(MaxChunk) : feed(self', data).exc = "none"
               /\ (~self.closed /\ snap[1].closed)
                    => \A data \in StrsUpTo(MaxChunk) :
                          feed(self', data).exc = "SplitterClosedError"]_vars
    /\ [][(result.op = "setstate" /\ result'.op = "feed")
            => (result'.exc = "SplitterClosedError") = snap[1].closed]_vars

\* getstate() on an open splitter, close(), then setstate(): open again.
C27_Witness ==
    /\ result.op = "setstate"
    /\ ~IsNone(capt)
    /\ ~capt[1].closed
    /\ oplog = <<Call("close", <<>>)>>
    /\ ~self.closed

\* C28: a closed splitter withholds nothing: its buffer is dropped and its
\* hold space is empty, whatever was called before.
C28_NothingWithheld ==
    self.closed => (IsNone(self.buff) /\ IsNone(self.hold))

\* close() after a feed: what was buffered is out as items.
C28_Witness ==
    /\ self.closed
    /\ result.op = "close"
    /\ result.exc = "none"
    /\ nfeeds > 0
    /\ Len(self.items) > 0

\* C29: no call of a public method ends in a failed assertion on the hold
\* space, for any class and either retain, and the hold space holds at most
\* one fragment.
C29_HoldAssertions ==
    /\ result.exc # "AssertionError"
    /\ Len(self.hold) <= 1

\* A fragment held across calls, after a SplitterState was taken.
C29_Witness ==
    /\ cls = "PrecededSplitter"
    /\ retain
    /\ ~IsNone(self.hold)
    /\ ~IsNone(snap)
    /\ nfeeds = MaxOpsFeeds
    /\ result.exc = "none"

\* The classes and settings in which no item is glued from two fragments.
NoGluing == cls = "SeparatedSplitter" \/ ~retain

\* Neither handler of the class puts anything into the hold space of st.
HandlersLeaveHold(st) ==
    \A item \in OpsData :
        /\ IsNone(HandleSeparator(st, item).st.hold)
        /\ \A first \in BOOLEAN, last \in BOOLEAN :
              IsNone(HandleSegment(st, item, first, last).st.hold)

\* C30: the hold space of a SeparatedSplitter, and of any splitter with
\* retain false, is never used: it is empty and no handler fills it.  That of
\* a TerminatedSplitter or UniversalNewlineSplitter with retain true is empty
\* whenever no call is in progress.
C30_HoldUnused ==
    /\ NoGluing => (IsNone(self.hold) /\ HandlersLeaveHold(self))
    /\ cls \in {"TerminatedSplitter", "UniversalNewlineSplitter"} => IsNone(self.hold)

\* A TerminatedSplitter with retain true that glued an item during a feed.
C30_Witness ==
    /\ cls = "TerminatedSplitter"
    /\ retain
    /\ result.op = "feed"
    /\ Len(self.items) > 0
    /\ IsNone(self.hold)

\* C31: a SeparatedSplitter closed before any feed() has emitted nothing, and
\* one closed after being fed nothing but empty strings has emitted one empty
\* item; an open splitter has no buffer exactly when nothing was fed since
\* construction or reset(), and only close() and reset() take the buffer away.
C31_EmptyIsNotNone ==
    /\ []((constructed /\ cls = "SeparatedSplitter" /\ self.closed)
            => /\ Len(chunks) = 0 => Emitted = <<>>
               /\ (Len(chunks) >= 1 /\ Input = <<>>) => Emitted = << <<>> >>)
    /\ []((constructed /\ ~self.closed) => (IsNone(self.buff) <=> Len(chunks) = 0))
    /\ [][(~IsNone(self.buff) /\ IsNone(self'.buff))
            => result'.op \in {"close", "reset"}]_vars

\* A SeparatedSplitter fed the empty string, and nothing else, then closed.
C31_Witness ==
    /\ constructed /\ cls = "SeparatedSplitter" /\ self.closed
    /\ Len(chunks) >= 1
    /\ Input = <<>>
    /\ Emitted = << <<>> >>

\* The start of the last separator matched in s.
LastSeparator(s) == Spans(s)[Len(Spans(s))][1]

\* C32: an open PrecededSplitter with retain has emitted the input up to the
\* start of the last separator matched and holds that separator, which is in
\* no item; it has emitted nothing before the first separator is matched.
\* Once closed, it has emitted the whole input.  Fed the separator alone, it
\* emits nothing until close(), and then the separator as its one item.
C32_PrecededDelay ==
    (constructed /\ cls = "PrecededSplitter" /\ retain /\ Len(chunks) >= 1)
        => IF self.closed
           THEN /\ Flatten(Emitted) = Input
                /\ Input = separator => Emitted = <<separator>>
           ELSE IF Len(Spans(Input)) = 0
           THEN Emitted = <<>> /\ IsNone(self.hold)
           ELSE /\ self.hold = Some(separator)
                /\ Flatten(Emitted) = Slice(Input, 0, LastSeparator(Input))
                /\ Len(Emitted) = Len(Spans(Input)) - 1
                                  + (IF Spans(Input)[1][1] > 0 THEN 1 ELSE 0)
                /\ Input = separator => Emitted = <<>>

\* An open PrecededSplitter with retain that emitted one separator with its
\* segment and holds the next one.
C32_Witness ==
    /\ constructed /\ cls = "PrecededSplitter" /\ retain /\ ~self.closed
    /\ Len(Spans(Input)) >= 2
    /\ Len(Emitted) >= 1
    /\ StartsWith(Emitted[Len(Emitted)], separator)
    /\ self.hold = Some(separator)

\* C33: split() on a closed splitter raises SplitterClosedError and returns
\* nothing; the splitter is as it was, so the items queued are still queued in
\* their order, and get() and getall() hand them out.
C33_SplitClosedKeepsQueue ==
    /\ [][(result'.op = "split" /\ self.closed)
            => /\ result'.exc = "SplitterClosedError"
               /\ result'.val = <<>>
               /\ self' = self
               /\ getall(self').val = self.items
               /\ Len(self.items) >= 1 => get(self').val = <<self.items[1]>>]_vars
    /\ [][(result.op = "split" /\ result.exc = "SplitterClosedError")
            => /\ result'.op = "getall" => result'.val = self.items
               /\ (result'.op = "get" /\ Len(self.items) >= 1)
                    => result'.val = <<self.items[1]>>]_vars

\* split() was refused by a closed splitter with two items or more queued.
C33_Witness ==
    /\ result.op = "split"
    /\ result.exc = "SplitterClosedError"
    /\ self.closed
    /\ Len(self.items) >= 2
    /\ self.items[1] # self.items[2]

\* C34: the buffer never holds a whole separator once a call has returned: for
\* the three classes with a constant separator it has no occurrence of the
\* separator, and for a UniversalNewlineSplitter it has no LF, and no CR except
\* as its last character.
C34_EagerEmission ==
    (constructed /\ ~IsNone(self.buff))
        => IF cls = "UniversalNewlineSplitter"
           THEN \A i \in 1..Len(self.buff[1]) :
                   /\ self.buff[1][i] # "\n"
                   /\ self.buff[1][i] = "\r" => i = Len(self.buff[1])
           ELSE StrIndex(self.buff[1], separator) = -1

\* A feed() of a UniversalNewlineSplitter emitted a line and left a CR, the
\* last character fed, in the buffer.
C34_Witness ==
    /\ cls = "UniversalNewlineSplitter"
    /\ result.op = "feed"
    /\ result.exc = "none"
    /\ Len(self.items) >= 1
    /\ self.buff = Some(<<"\r">>)

\* What an optional string holds: nothing when it is None.
Content(opt) == IF IsNone(opt) THEN <<>> ELSE opt[1]

\* C35: with retain, and for a UniversalNewlineSplitter without translate,
\* the items emitted since construction or reset(), then the hold space, then
\* the buffer, make up the input fed; after close() the items alone do.
C35_Conservation ==
    (constructed /\ retain /\ (cls = "UniversalNewlineSplitter" => ~translate))
        => /\ Flatten(Emitted) \o Content(self.hold) \o Content(self.buff) = Input
           /\ self.closed => Flatten(Emitted) = Input

\* A PrecededSplitter with retain, some items handed out, a separator held
\* and an unfinished segment buffered.
C35_Witness ==
    /\ constructed /\ retain /\ cls = "PrecededSplitter" /\ ~self.closed
    /\ Len(got) >= 1
    /\ ~IsNone(self.hold)
    /\ Len(Content(self.buff)) >= 1

\* C36: without retain, no item emitted by a TerminatedSplitter, a
\* SeparatedSplitter or a PrecededSplitter holds the separator, whatever was
\* fed and in whatever chunks.
C36_NoSeparatorInItems ==
    (constructed /\ ~retain)
        => \A i \in 1..Len(Emitted) : StrIndex(Emitted[i], separator) = -1

\* Three separator characters in a row were fed to a closed splitter whose
\* separator is that character twice, and two items or more came out.
C36_Witness ==
    /\ constructed /\ ~retain /\ self.closed
    /\ separator = <<"s", "s">>
    /\ StrIndex(Input, <<"s", "s", "s">>) # -1
    /\ Len(chunks) >= 2
    /\ Len(Emitted) >= 2

\* C37: the loop of _split() ends within as many iterations as the buffer has
\* characters, in every feed(), split() and close(), and no separator that
\* _find_separator reports is empty.
C37_Terminates ==
    /\ result.exc # "NonTermination"
    /\ constructed
         => \A data \in OpsData :
               \/ IsNone(SelfFindSeparator(self, data))
               \/ SelfFindSeparator(self, data)[2] > SelfFindSeparator(self, data)[1]

\* One feed() whose loop went round once for each character of the buffer.
C37_Witness ==
    /\ cls = "SeparatedSplitter"
    /\ ~retain
    /\ separator = <<"s">>
    /\ result.op = "feed"
    /\ result.exc = "none"
    /\ nfeeds = 1
    /\ self.items = << <<>>, <<>> >>
    /\ self.buff = Some(<<>>)

\* C38: the SplitterState returned by getstate() holds the fields as they
\* were at that call whatever is called afterwards, setstate() included, and
\* every setstate() with it leaves the splitter with those fields.
C38_SnapshotIndependent ==
    /\ [](~IsNone(snap) => (~IsNone(capt) /\ snap[1] = Fields(capt[1])))
    /\ [][result'.op # "getstate" => snap' = snap]_vars
    /\ [][result'.op = "setstate" => Fields(self') = snap[1]]_vars
    /\ [][(result.op = "setstate" /\ result'.op = "setstate") => self' = self]_vars

\* setstate() after the items that the SplitterState holds were taken off the queue.
C38_Witness ==
    /\ result.op = "setstate"
    /\ ~IsNone(snap)
    /\ Len(snap[1].items) >= 1
    /\ Len(oplog) >= 1
    /\ oplog[1].name \in {"get", "getall"}
    /\ outlog[1].exc = "none"
    /\ Fields(self) = snap[1]

\* The items that the call which returned out put on the queue of st.
Added(st, out) == SubSeq(out.st.items, Len(st.items) + 1, Len(out.st.items))

\* What a call that returned out on st made, the queue apart: its exception,
\* the items it put on the queue, and the other fields it left.
Effect(st, out) ==
    [exc |-> out.exc, added |-> Added(st, out), rest |-> [out.st EXCEPT !.items = <<>>]]

\* C39: get() and getall() change nothing but the queue, and nonempty and
\* closed change nothing: the buffer, the hold space, the closed flag and the
\* first flag stay, so a feed() or a close() called next raises the same, puts
\* the same items on the queue and leaves the same fields as it would have
\* without the retrieval.
C39_RetrievalFrame ==
    [][result'.op \in {"get", "getall"}
         => /\ [self' EXCEPT !.items = <<>>] = [self EXCEPT !.items = <<>>]
            /\ closed(self') = closed(self)
            /\ nonempty(self') = (Len(self'.items) > 0)
            /\ Effect(self', close(self')) = Effect(self, close(self))
            /\ \A data \in OpsData :
                  Effect(self', feed(self', data)) = Effect(self, feed(self, data))]_vars

\* get() took an item and left another queued, with a segment unfinished in the buffer.
C39_Witness ==
    /\ result.op = "get"
    /\ result.exc = "none"
    /\ Len(self.items) >= 1
    /\ ~IsNone(self.buff)
    /\ Len(self.buff[1]) >= 1

\* The lists of entries handed to join_terminated.
EntryLists == UNION {[1..k -> StrsUpTo(MaxChunk)] : k \in 0..MaxEntries}

\* The separator occurs nowhere in entry.
Without(entry) == StrIndex(entry, separator) = -1

\* The first separator in entry followed by the separator is the one that follows it.
EndsAtSeparator(entry) == StrIndex(entry \o separator, separator) = Len(entry)

\* C40 as stated: a closed TerminatedSplitter without retain that was fed, in
\* any chunks, join_terminated(entries, separator) for entries without the
\* separator has emitted exactly the entries.
C40_SplitInvertsJoinAnyEntries ==
    (constructed /\ cls = "TerminatedSplitter" /\ ~retain /\ self.closed)
        => \A entries \in EntryLists :
              ((\A k \in 1..Len(entries) : Without(entries[k]))
                 /\ join_terminated(entries, separator) = Input)
                  => Emitted = entries

\* C40 amended: a closed TerminatedSplitter without retain that was fed, in
\* any chunks, join_terminated(entries, separator) has emitted exactly the
\* entries, when for each entry the separator occurs in the entry followed by
\* the separator at the end only.
C40_SplitInvertsJoin ==
    (constructed /\ cls = "TerminatedSplitter" /\ ~retain /\ self.closed)
        => \A entries \in EntryLists :
              ((\A k \in 1..Len(entries) : EndsAtSeparator(entries[k]))
                 /\ join_terminated(entries, separator) = Input)
                  => Emitted = entries

\* Two entries, the second one empty, joined, fed in two chunks or more, and
\* split again.
C40_Witness ==
    /\ constructed /\ cls = "TerminatedSplitter" /\ ~retain /\ self.closed
    /\ Len(chunks) >= 2
    /\ Len(Emitted) = 2
    /\ Emitted[2] = <<>>
    /\ Len(Emitted[1]) >= 1
    /\ EndsAtSeparator(Emitted[1])
    /\ join_terminated(Emitted, separator) = Input

=============================================================================
